---- MODULE Spec2Model ----
(***************************************************************************)
(* CNtube: the retrieval-augmented grammar analysis of                     *)
(* services/grammar_rag_analysis.py, the batched index build of            *)
(* grammar_analysis/build_index_verbose.py and the transcript correction   *)
(* of services/transcriber.py.                                             *)
(*                                                                         *)
(*   SpecParse    corpus text -> load_and_process_documents -> index ->    *)
(*                level-filtered retrieval                                 *)
(*   SpecSearch   similarity_search over larger indexes                    *)
(*   SpecChain    chain.invoke: retrieval, prompt, generation backend      *)
(*   Spec         get_rag_chain called from concurrent request threads     *)
(*   SpecAnalyze  analyze_grammar_point on a backend response              *)
(*   SpecBatch    build_verbose: the index built batch by batch            *)
(*   SpecCorrect  correct_transcript on one text                           *)
(*   SpecCorrectFair  the same under fair scheduling of its own steps     *)
(*   SpecTranscribe  transcribe_audio: the stream of units over segments   *)
(*                                                                         *)
(* Text is a sequence of Unicode code points.  A Python None is the empty  *)
(* set and a present value v the singleton {v}.                            *)
(***************************************************************************)
EXTENDS Integers, Sequences, FiniteSets, TLC

VARIABLES
    \* corpus parser and retrieval
    content,      \* text of the corpus file
    documents,    \* list returned by load_and_process_documents
    index,        \* entries of the FAISS store, in insertion order
    hits,         \* documents returned by the last similarity_search
    qlevel,       \* level of the last retrieval ({} before any)
    context,      \* text returned by the last retrieve_with_filter
    added,        \* number of document groups the store holds
    rpc,          \* position of the parse/retrieve pipeline
    prompt_value, \* the prompt the chain assembled ({}: none yet)
    llm_calls,    \* number of calls of the generation backend by the chain
    chain_out,    \* the string the chain returned ({}: none yet)
    \* get_rag_chain and build_vector_store
    cached_chain, \* _CACHED_CHAIN: {} is None, {c} the chain object c
    disk,         \* the persisted index directory
    corpus,       \* the corpus file
    pc,           \* position of each request thread
    ret,          \* chain returned by the thread's last call ({}: none)
    ops,          \* what the thread's current or last call has performed
    late,         \* the call began after some call had returned a chain
    first,        \* the chain the first successful call returned ({}: none yet)
    calls,        \* number of calls each thread has made
    chains,       \* number of chain objects constructed
    builds,       \* number of FAISS.from_documents executions
    saves,        \* number of save_local executions
    vstore,       \* the store build_vector_store gave the thread ({}: none)
    raised_exc,   \* the exception the thread's call raised ({}: none)
    analysed,     \* the thread's analyze_grammar_point produced a result
    \* analyze_grammar_point
    user_level,   \* the requested level
    raw_json_str, \* text returned by chain.invoke, a sequence of tokens
    outcome,      \* what the call returned or raised
    apc,          \* position of the analysis call
    \* build_verbose
    b_docs,       \* docs: the documents loaded from the corpus
    vectorstore,  \* the store under construction ({}: None)
    batch_i,      \* i of the batch loop
    b_pc,         \* position of build_verbose
    saved_index,  \* the index directory build_verbose writes ({}: none)
    b_error,      \* the exception the build met ({}: none)
    \* correct_transcript
    USE_OLLAMA,   \* the configuration flag
    client,       \* the OpenAI client ({}: None)
    ct_text,      \* the text argument
    ct_content,   \* the content variable
    ct_reply,     \* what the backend call gave ({}: no call made)
    ct_result,    \* the value returned ({}: none yet)
    ct_pc,        \* position of the call
    ct_calls,     \* number of generation-backend calls made
    \* transcribe_audio
    segments,     \* the segments the recognizer yields
    all_segments, \* the list collected by the first pass
    seg_i,        \* number of segments the current pass has handled
    tr_pc,        \* position of the generator
    units,        \* the units emitted so far
    full_text,    \* the cumulative transcript
    duration,     \* the duration argument
    chat_log,     \* outcome of the backend call of each corrected segment
    outstanding,  \* the prompt of the backend call in flight ({}: none)
    consumer      \* what the consumer of the generator is doing

chainVars == <<prompt_value, llm_calls, chain_out>>
retrVars == <<content, documents, index, hits, qlevel, context, added, rpc,
              chainVars>>
cacheVars == <<cached_chain, disk, corpus, pc, ret, ops, late, first, calls,
               chains, builds, saves, vstore, raised_exc, analysed>>
anaVars == <<user_level, raw_json_str, outcome, apc>>
batchVars == <<b_docs, vectorstore, batch_i, b_pc, saved_index, b_error>>
corrVars == <<USE_OLLAMA, client, ct_text, ct_content, ct_reply, ct_result,
              ct_pc, ct_calls>>
trVars == <<segments, all_segments, seg_i, tr_pc, units, full_text, duration,
            chat_log, outstanding, consumer>>
vars == <<retrVars, cacheVars, anaVars, batchVars, corrVars, trVars>>

\* What the actions of one part leave unchanged in the others.
notRetr == <<cacheVars, anaVars, batchVars, corrVars, trVars>>
notCache == <<retrVars, anaVars, batchVars, corrVars, trVars>>
notAna == <<retrVars, cacheVars, batchVars, corrVars, trVars>>
notBatch == <<retrVars, cacheVars, anaVars, corrVars, trVars>>
notCorr == <<retrVars, cacheVars, anaVars, batchVars, trVars>>
notTr == <<retrVars, cacheVars, anaVars, batchVars, corrVars>>

-----------------------------------------------------------------------------
(* Bounds of the model *)

MaxChunks == 3
MaxLevel == 2
MaxGroups == 2
MaxCalls == 2
MaxLatin == 19
MaxOut == 31
MaxSegs == 5
MaxDocs == 23

-----------------------------------------------------------------------------
(* Characters *)

NL == 10
SP == 32
Star == 42
Slash == 47
Ji == 22522
Chu == 30990
Jin == 36914
Jie == 38542
Di == 31532
Grade == 32026

\* str.strip() and the regex class \s: Unicode white space.
IsSpace(c) == c \in {9, 10, 11, 12, 13, 28, 29, 30, 31, 32, 133, 160, 12288}

\* The regex class \d for the digits int() accepts: ASCII and full-width.
IsDigit(c) == (48 <= c /\ c <= 57) \/ (65296 <= c /\ c <= 65305)

DigitValue(c) == IF c <= 57 THEN c - 48 ELSE c - 65296

Min(S) == CHOOSE x \in S : \A y \in S : x <= y
Max(S) == CHOOSE x \in S : \A y \in S : x >= y

-----------------------------------------------------------------------------
(* load_and_process_documents *)

\* First position >= 1 where the separator '//' starts, 0 when there is none.
FindSep(s) ==
    LET at == {i \in 1..(Len(s) - 1) : s[i] = Slash /\ s[i + 1] = Slash}
    IN  IF at = {} THEN 0 ELSE Min(at)

\* content.split('//'): leftmost, non-overlapping separators.
RECURSIVE Split(_)
Split(s) ==
    LET j == FindSep(s)
    IN  IF j = 0 THEN <<s>>
        ELSE <<SubSeq(s, 1, j - 1)>> \o Split(SubSeq(s, j + 2, Len(s)))

\* chunk.strip()
Strip(s) ==
    LET ns == {i \in 1..Len(s) : ~IsSpace(s[i])}
    IN  IF ns = {} THEN <<>> ELSE SubSeq(s, Min(ns), Max(ns))

\* The character classes of the patterns: \s, \d and \n.
InClass(c, class) ==
    CASE class = "s" -> IsSpace(c)
      [] class = "d" -> IsDigit(c)
      [] class = "n" -> c = NL

\* Last position of the run of characters of the class that starts at i
\* (i - 1 when s[i] is not of the class): a greedy quantifier.
RunEnd(s, i, class) ==
    IF i > Len(s) THEN i - 1
    ELSE Max({j \in (i - 1)..Len(s) : \A k \in i..j : InClass(s[k], class)})

\* int(match.group(2))
RECURSIVE ToInt(_)
ToInt(ds) ==
    IF ds = <<>> THEN 0
    ELSE 10 * ToInt(SubSeq(ds, 1, Len(ds) - 1)) + DigitValue(ds[Len(ds)])

\* The digits of group 2 when level_pattern matches at position i, <<>> when
\* it does not:  (基礎|進階)\s+第(\d+)\*?級
MatchAt(s, i) ==
    IF ~(i + 1 <= Len(s)
         /\ (<<s[i], s[i + 1]>> = <<Ji, Chu>> \/ <<s[i], s[i + 1]>> = <<Jin, Jie>>))
    THEN <<>>
    ELSE
    LET w == RunEnd(s, i + 2, "s")
        d == RunEnd(s, w + 2, "d")
        e == IF d + 1 <= Len(s) /\ s[d + 1] = Star THEN d + 1 ELSE d
    IN  IF /\ w >= i + 2
           /\ w + 1 <= Len(s) /\ s[w + 1] = Di
           /\ d >= w + 2
           /\ e + 1 <= Len(s) /\ s[e + 1] = Grade
        THEN SubSeq(s, w + 2, d)
        ELSE <<>>

\* level_pattern.search(chunk) and the int() of its group 2: {} is None.
LevelOf(chunk) ==
    LET at == {i \in 1..Len(chunk) : MatchAt(chunk, i) # <<>>}
    IN  IF at = {} THEN {} ELSE {ToInt(MatchAt(chunk, Min(at)))}

\* Mutant of SubNewlines: every newline becomes a space of its own.
SubNewlinesEach(s) == [p \in 1..Len(s) |-> IF s[p] = NL THEN SP ELSE s[p]]

\* re.sub(r'\n+', ' ', chunk)
RECURSIVE SubNewlines(_)
SubNewlines(s) ==
    IF s = <<>> THEN <<>>
    ELSE IF s[1] = NL
         THEN <<SP>> \o SubNewlines(SubSeq(s, RunEnd(s, 1, "n") + 1, Len(s)))
         ELSE <<s[1]>> \o SubNewlines(Tail(s))

\* clean_text of a stripped chunk
CleanText(chunk) == Strip(SubNewlines(chunk))

\* Document(page_content=clean_text, metadata=...): the metadata is a set of
\* <<key, value>> pairs, empty when no level was found.
Document(clean_text, level) ==
    [page_content |-> clean_text,
     metadata |-> {<<"level", l>> : l \in level}]

\* Mutant of ProcessChunks: a chunk without a level is skipped.
RECURSIVE ProcessChunksLeveled(_, _)
ProcessChunksLeveled(raw_chunks, i) ==
    IF i > Len(raw_chunks) THEN <<>>
    ELSE LET chunk == Strip(raw_chunks[i])
             rest == ProcessChunksLeveled(raw_chunks, i + 1)
         IN  IF chunk = <<>> \/ LevelOf(chunk) = {} THEN rest
             ELSE <<Document(CleanText(chunk), LevelOf(chunk))>> \o rest

\* The body of the loop over raw_chunks, for the chunks from position i on.
RECURSIVE ProcessChunks(_, _)
ProcessChunks(raw_chunks, i) ==
    IF i > Len(raw_chunks) THEN <<>>
    ELSE LET chunk == Strip(raw_chunks[i])
             rest == ProcessChunks(raw_chunks, i + 1)
         IN  IF chunk = <<>> THEN rest
             ELSE IF CleanText(chunk) # <<>>
                  THEN <<Document(CleanText(chunk), LevelOf(chunk))>> \o rest
                  ELSE rest

load_and_process_documents(text) == ProcessChunks(Split(text), 1)

-----------------------------------------------------------------------------
(* The vector store and level-filtered retrieval *)

\* Retrieval constants: k of retrieve_with_filter, and the number of nearest
\* candidates FAISS fetches before it applies a metadata filter (fetch_k, which
\* the call leaves at the library default).
K == 5
FetchK == 20

\* doc.metadata.get(key): {} is None.
MetaGet(metadata, key) == {p[2] : p \in {q \in metadata : q[1] = key}}

\* An entry of the store: a document with its embedding, of which the model
\* keeps the distance to the embedded query (smaller is more similar).
Entry(doc, dist) ==
    [page_content |-> doc.page_content, metadata |-> doc.metadata, dist |-> dist]

\* The position outside taken whose entry is nearest to the query, found by
\* a scan from position i on (0: none); an equal distance keeps the earlier.
RECURSIVE Closest(_, _, _, _)
Closest(ix, taken, i, best) ==
    IF i > Len(ix) THEN best
    ELSE Closest(ix, taken, i + 1,
                 IF i \notin taken /\ (best = 0 \/ ix[i].dist < ix[best].dist)
                 THEN i ELSE best)

\* Mutant of Nearest: the first n positions in insertion order.
NearestInserted(ix, n, taken) ==
    [r \in 1..(IF n < Len(ix) THEN n ELSE Len(ix)) |-> r]

\* index.search(vector, n): the positions of the n entries nearest to the
\* query, nearest first (all positions when the store holds fewer).
RECURSIVE Nearest(_, _, _)
Nearest(ix, n, taken) ==
    LET i == Closest(ix, taken, 1, 0)
    IN  IF n = 0 \/ i = 0 THEN <<>>
        ELSE <<i>> \o Nearest(ix, n - 1, taken \cup {i})

Prefix(s, n) == SubSeq(s, 1, IF n < Len(s) THEN n ELSE Len(s))

\* Mutant of LevelFilter: an entry without a level passes.
LevelFilterOrNone(e, level) == MetaGet(e.metadata, "level") \subseteq {level}

\* The level filter {'level': level} on one entry.
LevelFilter(e, level) == MetaGet(e.metadata, "level") = {level}

\* vectorstore.similarity_search(query, k=k, filter={'level': level}): the
\* fetch_k nearest entries, then the filter, then the first k.
similarity_search(ix, k, level) ==
    LET near == Nearest(ix, FetchK, {})
        fetched == [r \in 1..Len(near) |-> ix[near[r]]]
    IN  Prefix(SelectSeq(fetched, LAMBDA e : LevelFilter(e, level)), k)

\* "\n\n".join([d.page_content for d in docs])
RECURSIVE JoinDocs(_)
JoinDocs(docs) ==
    IF docs = <<>> THEN <<>>
    ELSE IF Len(docs) = 1 THEN docs[1].page_content
         ELSE docs[1].page_content \o <<NL, NL>> \o JoinDocs(Tail(docs))

\* retrieve_with_filter: the documents found and the context text returned.
retrieve_with_filter(ix, level) ==
    LET docs == similarity_search(ix, K, level)
    IN  [docs |-> docs, context |-> JoinDocs(docs)]

-----------------------------------------------------------------------------
(* Corpus files of the model *)

\* Blocks a corpus file is written from: empty, blank, the two marker forms,
\* blocks without a marker, a lone '/', two markers, a marker without digits.
ChunkPool ==
    { <<>>,
      <<SP, NL>>,
      <<Ji, Chu, SP, Di, 49, Grade, NL, 25105, 26159, 23416, 29983, 12290>>,
      <<NL, Jin, Jie, SP, SP, Di, 49, 50, Star, Grade, NL, NL, 20182, NL>>,
      <<27794, 26377>>,
      <<Ji, Chu, Di, 50, Grade>>,
      <<Slash>>,
      <<Ji, Chu, SP, Di, 50, Grade, SP, Jin, Jie, NL, Di, 49, Grade>>,
      <<Jin, Jie, SP, Di, Star, Grade>> }

RECURSIVE JoinChunks(_)
JoinChunks(cs) ==
    IF cs = <<>> THEN <<>>
    ELSE IF Len(cs) = 1 THEN cs[1]
         ELSE cs[1] \o <<Slash, Slash>> \o JoinChunks(Tail(cs))

Corpora ==
    {JoinChunks(cs) : cs \in UNION {[1..n -> ChunkPool] : n \in 0..MaxChunks}}

\* Sizes of the groups of same-level documents a store is populated with
\* (FetchK and more documents can lie nearer to a query than a given one).
GroupSizes == {1, 20}

-----------------------------------------------------------------------------
(* Actions: parse the corpus, build the store, retrieve *)

\* The request threads of the process.
Threads == {"t1", "t2"}

CacheIdle ==
    /\ cached_chain = {} /\ disk = "absent" /\ corpus = "ok"
    /\ pc = [t \in Threads |-> "idle"]
    /\ ret = [t \in Threads |-> {}]
    /\ ops = [t \in Threads |-> {}]
    /\ late = [t \in Threads |-> FALSE]
    /\ first = {} /\ calls = [t \in Threads |-> 0]
    /\ chains = 0 /\ builds = 0 /\ saves = 0
    /\ vstore = [t \in Threads |-> {}]
    /\ raised_exc = [t \in Threads |-> {}]
    /\ analysed = [t \in Threads |-> FALSE]

AnaIdle ==
    /\ user_level = 1 /\ raw_json_str = <<>>
    /\ outcome = [kind |-> "none"] /\ apc = "idle"

RetrIdle ==
    /\ content = <<>> /\ documents = <<>> /\ index = <<>> /\ hits = <<>>
    /\ qlevel = {} /\ context = <<>> /\ added = 0 /\ rpc = "idle"
    /\ prompt_value = {} /\ llm_calls = 0 /\ chain_out = {}

BatchIdle ==
    /\ b_docs = <<>> /\ vectorstore = {} /\ batch_i = 0 /\ b_pc = "idle"
    /\ saved_index = {} /\ b_error = {}

CorrIdle ==
    /\ USE_OLLAMA = TRUE /\ client = {} /\ ct_text = <<>> /\ ct_content = <<>>
    /\ ct_reply = {} /\ ct_result = {} /\ ct_pc = "idle" /\ ct_calls = 0

TrIdle ==
    /\ segments = <<>> /\ all_segments = <<>> /\ seg_i = 0 /\ tr_pc = "idle"
    /\ units = <<>> /\ full_text = <<>> /\ duration = 0 /\ chat_log = <<>>
    /\ outstanding = {} /\ consumer = "none"

\* The parts of the program a specification leaves alone.
RestIdle == BatchIdle /\ CorrIdle /\ TrIdle

\* documents = load_and_process_documents(file_path)
LoadDocuments ==
    /\ rpc = "file"
    /\ documents' = load_and_process_documents(content)
    /\ rpc' = "docs"
    /\ UNCHANGED <<content, index, hits, qlevel, context, added>>
    /\ UNCHANGED chainVars
    /\ UNCHANGED notRetr

\* FAISS.from_documents(documents, embeddings), reached only with documents.
\* The embeddings place the documents at increasing or decreasing distance
\* from the query.
FromDocuments ==
    /\ rpc = "docs"
    /\ documents # <<>>
    /\ \E sign \in {1, -1} :
          index' = [i \in 1..Len(documents) |->
                      Entry(documents[i], Len(documents) + sign * i)]
    /\ rpc' = "index"
    /\ UNCHANGED <<content, documents, hits, qlevel, context, added>>
    /\ UNCHANGED chainVars
    /\ UNCHANGED notRetr

\* The store built by FAISS.from_documents holds a further group of documents:
\* size documents of one level (or of none), all nearer to the query than the
\* entries held so far or all farther.
StoreDocuments ==
    /\ rpc = "index"
    /\ added < MaxGroups
    /\ \E level \in {{}} \cup {{l} : l \in 1..MaxLevel}, size \in GroupSizes, sign \in {1, -1} :
          LET ds == {index[i].dist : i \in 1..Len(index)}
              base == IF ds = {} THEN 1000 ELSE IF sign = 1 THEN Max(ds) ELSE Min(ds)
              doc(j) == Document(<<19968 + Len(index) + j>>, level)
          IN  index' = index \o [j \in 1..size |-> Entry(doc(j), base + sign * j)]
    /\ added' = added + 1
    /\ UNCHANGED <<content, documents, hits, qlevel, context, rpc>>
    /\ UNCHANGED chainVars
    /\ UNCHANGED notRetr

\* retrieve_with_filter({'input': query, 'level': level})
Retrieve ==
    /\ rpc = "index"
    /\ index # <<>>
    /\ \E level \in 1..MaxLevel :
          LET found == retrieve_with_filter(index, level)
          IN  /\ hits' = found.docs
              /\ context' = found.context
              /\ qlevel' = {level}
    /\ rpc' = "searched"
    /\ UNCHANGED <<content, documents, index, added>>
    /\ UNCHANGED chainVars
    /\ UNCHANGED notRetr

ParseInit ==
    /\ content \in Corpora
    /\ documents = <<>> /\ index = <<>> /\ hits = <<>>
    /\ qlevel = {} /\ context = <<>> /\ added = 0 /\ rpc = "file"
    /\ prompt_value = {} /\ llm_calls = 0 /\ chain_out = {}
    /\ CacheIdle /\ AnaIdle /\ RestIdle

ParseNext == LoadDocuments \/ FromDocuments \/ Retrieve

SpecParse == ParseInit /\ [][ParseNext]_vars

SearchInit ==
    /\ content = <<>> /\ documents = <<>> /\ index = <<>> /\ hits = <<>>
    /\ qlevel = {} /\ context = <<>> /\ added = 0 /\ rpc = "index"
    /\ prompt_value = {} /\ llm_calls = 0 /\ chain_out = {}
    /\ CacheIdle /\ AnaIdle /\ RestIdle

SearchNext == StoreDocuments \/ Retrieve

SpecSearch == SearchInit /\ [][SearchNext]_vars

(* chain.invoke: RunnableParallel | prompt | llm | StrOutputParser.  Retrieve
   is the RunnableParallel step, whose context is retrieve_with_filter. *)

\* Mutant of Piped: a step that gave an empty context ends the chain.
PipedUnlessEmpty(stage, value) ==
    CASE stage = "searched" -> IF value = <<>> THEN "parsed" ELSE "prompted"
      [] stage = "prompted" -> "generated"
      [] stage = "generated" -> "parsed"

\* The runnables of the sequence are invoked one after the other, each on
\* the output of the one before, whatever that output is.
Piped(stage, value) ==
    CASE stage = "searched" -> "prompted"
      [] stage = "prompted" -> "generated"
      [] stage = "generated" -> "parsed"

\* The answers of the generation backend in the model.
Generations == {"found_true", "found_false", "no_json"}

\* prompt: the template is filled with context, level and input.
FormatPrompt ==
    /\ rpc = "searched"
    /\ prompt_value' = {[context |-> context, level |-> qlevel,
                         input |-> "sentence"]}
    /\ rpc' = Piped("searched", context)
    /\ UNCHANGED <<content, documents, index, hits, qlevel, context, added,
                   llm_calls, chain_out>>
    /\ UNCHANGED notRetr

\* llm: the generation backend is called with the prompt.
Generate ==
    /\ rpc = "prompted"
    /\ llm_calls' = llm_calls + 1
    /\ \E g \in Generations : chain_out' = {[message |-> g]}
    /\ rpc' = Piped("prompted", prompt_value)
    /\ UNCHANGED <<content, documents, index, hits, qlevel, context, added,
                   prompt_value>>
    /\ UNCHANGED notRetr

\* StrOutputParser: the text of the backend's message.
ParseOutput ==
    /\ rpc = "generated"
    /\ chain_out' = {m.message : m \in chain_out}
    /\ rpc' = Piped("generated", chain_out)
    /\ UNCHANGED <<content, documents, index, hits, qlevel, context, added,
                   prompt_value, llm_calls>>
    /\ UNCHANGED notRetr

ChainNext ==
    LoadDocuments \/ FromDocuments \/ Retrieve \/ FormatPrompt \/ Generate
    \/ ParseOutput

SpecChain == ParseInit /\ [][ChainNext]_vars

-----------------------------------------------------------------------------
(* get_rag_chain and build_vector_store, one step per read or write of the
   shared slot and per call that does I/O.  The corpus path argument is used
   by build_vector_store alone. *)

\* A request thread enters analyze_grammar_point, which calls get_rag_chain.
Call(t) ==
    /\ pc[t] \in {"idle", "returned", "raised"}
    /\ calls[t] < MaxCalls
    /\ calls' = [calls EXCEPT ![t] = @ + 1]
    /\ pc' = [pc EXCEPT ![t] = "check"]
    /\ ops' = [ops EXCEPT ![t] = {}]
    /\ ret' = [ret EXCEPT ![t] = {}]
    /\ late' = [late EXCEPT ![t] = first # {}]
    /\ vstore' = [vstore EXCEPT ![t] = {}]
    /\ raised_exc' = [raised_exc EXCEPT ![t] = {}]
    /\ analysed' = [analysed EXCEPT ![t] = FALSE]
    /\ UNCHANGED <<cached_chain, disk, corpus, first, chains, builds, saves>>
    /\ UNCHANGED notCache

\* if _CACHED_CHAIN is not None
CheckCache(t) ==
    /\ pc[t] = "check"
    /\ pc' = [pc EXCEPT ![t] = IF cached_chain # {} THEN "hit" ELSE "exists"]
    /\ UNCHANGED <<cached_chain, disk, corpus, ret, ops, late, first, calls,
                   chains, builds, saves, vstore, raised_exc, analysed>>
    /\ UNCHANGED notCache

\* return _CACHED_CHAIN
ReturnCached(t) ==
    /\ pc[t] = "hit"
    /\ ret' = [ret EXCEPT ![t] = cached_chain]
    /\ first' = IF first = {} THEN cached_chain ELSE first
    /\ pc' = [pc EXCEPT ![t] = "returned"]
    /\ UNCHANGED <<cached_chain, disk, corpus, ops, late, calls, chains,
                   builds, saves, vstore, raised_exc, analysed>>
    /\ UNCHANGED notCache

\* build_vector_store: if os.path.exists(index_path_str)
IndexExists(t) ==
    /\ pc[t] = "exists"
    /\ pc' = [pc EXCEPT ![t] = IF disk # "absent" THEN "load" ELSE "docs"]
    /\ UNCHANGED <<cached_chain, disk, corpus, ret, ops, late, first, calls,
                   chains, builds, saves, vstore, raised_exc, analysed>>
    /\ UNCHANGED notCache

\* Mutant of LoadOutcome: the failure of load_local is raised.
LoadOutcomeRaised(d) ==
    IF d = "valid" THEN [pc |-> "llm", store |-> {"loaded"}, exc |-> {}]
    ELSE [pc |-> "raised", store |-> {}, exc |-> {"LoadError"}]

\* Mutant of LoadOutcome: the loaded index is not returned from inside the
\* try and the function goes on to read the corpus.
LoadOutcomeFallsThrough(d) ==
    IF d = "valid" THEN [pc |-> "docs", store |-> {"loaded"}, exc |-> {}]
    ELSE [pc |-> "docs", store |-> {}, exc |-> {}]

\* try: FAISS.load_local ... return vectorstore; except Exception: the
\* failure is logged and the index rebuilt.
LoadOutcome(d) ==
    IF d = "valid" THEN [pc |-> "llm", store |-> {"loaded"}, exc |-> {}]
    ELSE [pc |-> "docs", store |-> {}, exc |-> {}]

\* FAISS.load_local.  A directory another thread is writing does not load.
LoadLocal(t) ==
    /\ pc[t] = "load"
    /\ ops' = [ops EXCEPT ![t] = @ \cup {"load"}]
    /\ pc' = [pc EXCEPT ![t] = LoadOutcome(disk).pc]
    /\ vstore' = [vstore EXCEPT ![t] = LoadOutcome(disk).store]
    /\ raised_exc' = [raised_exc EXCEPT ![t] = LoadOutcome(disk).exc]
    /\ UNCHANGED <<cached_chain, disk, corpus, ret, late, first, calls,
                   chains, builds, saves, analysed>>
    /\ UNCHANGED notCache

\* Mutant of CorpusOutcome: a corpus without documents is built into an
\* index.
CorpusOutcomeEmptyBuilt(c) ==
    IF c = "missing" THEN [pc |-> "raised", exc |-> {"FileNotFoundError"}]
    ELSE [pc |-> "build", exc |-> {}]

\* load_and_process_documents raises FileNotFoundError for a missing file;
\* if not documents: raise ValueError.
CorpusOutcome(c) ==
    CASE c = "ok" -> [pc |-> "build", exc |-> {}]
      [] c = "missing" -> [pc |-> "raised", exc |-> {"FileNotFoundError"}]
      [] c = "empty" -> [pc |-> "raised", exc |-> {"ValueError"}]

\* documents = load_and_process_documents(file_path)
LoadCorpus(t) ==
    /\ pc[t] = "docs"
    /\ ops' = [ops EXCEPT ![t] = @ \cup {"corpus"}]
    /\ pc' = [pc EXCEPT ![t] = CorpusOutcome(corpus).pc]
    /\ raised_exc' = [raised_exc EXCEPT ![t] = CorpusOutcome(corpus).exc]
    /\ UNCHANGED <<cached_chain, disk, corpus, ret, late, first, calls,
                   chains, builds, saves, vstore, analysed>>
    /\ UNCHANGED notCache

\* Mutant of BuildOutcome: a failed embedding leaves a store without
\* documents and the call goes on.
BuildOutcomeMasked(ok) ==
    IF ok THEN [pc |-> "save", store |-> {"built"}, exc |-> {}]
    ELSE [pc |-> "llm", store |-> {"empty"}, exc |-> {}]

\* vectorstore = FAISS.from_documents(documents, embeddings): an exception
\* of the embedding backend is not caught.
BuildOutcome(ok) ==
    IF ok THEN [pc |-> "save", store |-> {"built"}, exc |-> {}]
    ELSE [pc |-> "raised", store |-> {}, exc |-> {"EmbeddingError"}]

\* FAISS.from_documents(documents, embeddings): the embedding backend may fail.
BuildStore(t) ==
    /\ pc[t] = "build"
    /\ \E ok \in BOOLEAN :
          /\ pc' = [pc EXCEPT ![t] = BuildOutcome(ok).pc]
          /\ vstore' = [vstore EXCEPT ![t] = BuildOutcome(ok).store]
          /\ raised_exc' = [raised_exc EXCEPT ![t] = BuildOutcome(ok).exc]
          /\ ops' = [ops EXCEPT ![t] = @ \cup {IF ok THEN "build" ELSE "embed_failed"}]
          /\ builds' = IF ok THEN builds + 1 ELSE builds
    /\ UNCHANGED <<cached_chain, disk, corpus, ret, late, first, calls,
                   chains, saves, analysed>>
    /\ UNCHANGED notCache

\* The ways vectorstore.save_local can end: it starts writing its files, it
\* fails before it wrote anything, or it fails with the directory created and
\* its files incomplete.
SaveResults == {"written", "failed", "failed_partial"}

\* Mutant of SaveOutcome: the failure of save_local is raised.
SaveOutcomeRaised(how, d) ==
    CASE how = "written" -> [pc |-> "saving", disk |-> "writing", exc |-> {}]
      [] how = "failed" -> [pc |-> "raised", disk |-> d, exc |-> {"SaveError"}]
      [] how = "failed_partial" ->
            [pc |-> "raised", disk |-> "corrupt", exc |-> {"SaveError"}]

\* try: vectorstore.save_local(index_path_str); except Exception: the
\* failure is logged and the function goes on to return vectorstore.
SaveOutcome(how, d) ==
    CASE how = "written" -> [pc |-> "saving", disk |-> "writing", exc |-> {}]
      [] how = "failed" -> [pc |-> "llm", disk |-> d, exc |-> {}]
      [] how = "failed_partial" -> [pc |-> "llm", disk |-> "corrupt", exc |-> {}]

\* vectorstore.save_local(index_path_str)
SaveLocal(t) ==
    /\ pc[t] = "save"
    /\ saves' = saves + 1
    /\ \E how \in SaveResults :
          /\ ops' = [ops EXCEPT ![t] = @ \cup {"save"} \cup
                        (IF how = "written" THEN {} ELSE {"save_failed"})]
          /\ disk' = SaveOutcome(how, disk).disk
          /\ pc' = [pc EXCEPT ![t] = SaveOutcome(how, disk).pc]
          /\ raised_exc' = [raised_exc EXCEPT ![t] = SaveOutcome(how, disk).exc]
    /\ UNCHANGED <<cached_chain, corpus, ret, late, first, calls, chains,
                   builds, vstore, analysed>>
    /\ UNCHANGED notCache

\* save_local has written its files.
SaveDone(t) ==
    /\ pc[t] = "saving"
    /\ disk' = "valid"
    /\ pc' = [pc EXCEPT ![t] = "llm"]
    /\ UNCHANGED <<cached_chain, corpus, ret, ops, late, first, calls,
                   chains, builds, saves, vstore, raised_exc, analysed>>
    /\ UNCHANGED notCache

\* llm = create_llm()
CreateLLM(t) ==
    /\ pc[t] = "llm"
    /\ ops' = [ops EXCEPT ![t] = @ \cup {"llm"}]
    /\ pc' = [pc EXCEPT ![t] = "store"]
    /\ UNCHANGED <<cached_chain, disk, corpus, ret, late, first, calls,
                   chains, builds, saves, vstore, raised_exc, analysed>>
    /\ UNCHANGED notCache

\* chain = (...); _CACHED_CHAIN = chain; return chain
StoreChain(t) ==
    /\ pc[t] = "store"
    /\ chains' = chains + 1
    /\ cached_chain' = {chains + 1}
    /\ ret' = [ret EXCEPT ![t] = {chains + 1}]
    /\ first' = IF first = {} THEN {chains + 1} ELSE first
    /\ pc' = [pc EXCEPT ![t] = "returned"]
    /\ UNCHANGED <<disk, corpus, ops, late, calls, builds, saves, vstore,
                   raised_exc, analysed>>
    /\ UNCHANGED notCache

\* analyze_grammar_point goes on with the chain get_rag_chain returned and
\* gives its result (lines 265-329).
AnalyzeWithChain(t) ==
    /\ pc[t] = "returned"
    /\ ~analysed[t]
    /\ analysed' = [analysed EXCEPT ![t] = TRUE]
    /\ UNCHANGED <<cached_chain, disk, corpus, pc, ret, ops, late, first,
                   calls, chains, builds, saves, vstore, raised_exc>>
    /\ UNCHANGED notCache

Init ==
    /\ RetrIdle /\ AnaIdle /\ RestIdle
    /\ cached_chain = {}
    /\ disk \in {"absent", "valid", "corrupt"}
    /\ corpus \in {"ok", "missing", "empty"}
    /\ pc = [t \in Threads |-> "idle"]
    /\ ret = [t \in Threads |-> {}]
    /\ ops = [t \in Threads |-> {}]
    /\ late = [t \in Threads |-> FALSE]
    /\ first = {} /\ calls = [t \in Threads |-> 0]
    /\ chains = 0 /\ builds = 0 /\ saves = 0
    /\ vstore = [t \in Threads |-> {}]
    /\ raised_exc = [t \in Threads |-> {}]
    /\ analysed = [t \in Threads |-> FALSE]

Next ==
    \E t \in Threads :
        \/ Call(t) \/ CheckCache(t) \/ ReturnCached(t)
        \/ IndexExists(t) \/ LoadLocal(t) \/ LoadCorpus(t) \/ BuildStore(t)
        \/ SaveLocal(t) \/ SaveDone(t) \/ CreateLLM(t) \/ StoreChain(t)
        \/ AnalyzeWithChain(t)

Spec == Init /\ [][Next]_vars

-----------------------------------------------------------------------------
(* analyze_grammar_point, from the text chain.invoke returns.

   The text is a sequence of tokens: white space, the fence ```json, the fence
   ```, text that is no JSON, or one JSON value.  A JSON value is
   [t |-> "obj", v |-> function from its keys], or [t |-> T] for a value that
   is no object (T is "list", "num", "str" or "null"). *)

WS == [tok |-> "ws"]
FenceJson == [tok |-> "fence_json"]
Fence == [tok |-> "fence"]
Garbage == [tok |-> "text", s |-> "not json"]
JsonTok(val) == [tok |-> "json", val |-> val]

Obj(f) == [t |-> "obj", v |-> f]
NonObj(tag) == [t |-> tag]
EmptyDict == Obj(<<>>)

\* raw_json_str.strip()
StripTokens(toks) ==
    LET ns == {i \in 1..Len(toks) : toks[i].tok # "ws"}
    IN  IF ns = {} THEN <<>> ELSE SubSeq(toks, Min(ns), Max(ns))

\* if cleaned_json.startswith("```json"): cleaned_json = cleaned_json[7:]
DropLeadingFence(toks) ==
    IF toks # <<>> /\ toks[1].tok = "fence_json" THEN Tail(toks) ELSE toks

\* if cleaned_json.endswith("```"): cleaned_json = cleaned_json[:-3]
DropTrailingFence(toks) ==
    IF toks # <<>> /\ toks[Len(toks)].tok = "fence"
    THEN SubSeq(toks, 1, Len(toks) - 1) ELSE toks

cleaned_json(raw) == DropTrailingFence(DropLeadingFence(StripTokens(raw)))

\* json.loads: one JSON value, white space around it allowed; {} stands for
\* JSONDecodeError.
json_loads(toks) ==
    LET body == StripTokens(toks)
    IN  IF Len(body) = 1 /\ body[1].tok = "json" THEN {body[1].val} ELSE {}

\* d.get(key, default) on a dict
Get(d, key, default) == IF key \in DOMAIN d.v THEN d.v[key] ELSE default

\* str.lower() on the strings of the model
Lower(str) == IF str \in {"None", "NONE"} THEN "none" ELSE str

Raised(exc) == [kind |-> "raised", exc |-> exc]

\* Step 4 of analyze_grammar_point on the parsed dict: the lines of the output,
\* each <<label>> or <<label, value>>.
FormatOutput(data, level_asked, pinyin_str, zhuyin_str) ==
    LET translation == Get(data, "translation", "")
        matched == Get(data, "matched_grammar", EmptyDict)
        found == Get(matched, "found", FALSE)
        level == Get(matched, "level", level_asked)
        point == Get(matched, "point", "Unknown")
        explanation == Get(matched, "explanation", "")
        additional == Get(data, "additional_info", EmptyDict)
        add_point == Get(additional, "point", "")
        add_exp == Get(additional, "explanation", "")
    IN  <<  <<"1. **Sentence**:">>,
            <<"English Translation", translation>>,
            <<"**Zhuyin (Bopomofo)**", zhuyin_str>>,
            <<"Hanyu Pinyin", pinyin_str>>,
            <<"2. **Grammar Explanation**:">> >>
        \o (IF found
            THEN << <<"Level", level>>, <<"Point", point>>,
                    <<"Explanation", explanation>> >>
            ELSE << <<"No matching grammar points found for Level", level_asked>> >>)
        \o (IF add_point # "" /\ Lower(add_point) # "none"
            THEN << <<"3. **Additional Information**:">>,
                    <<"Additional Point", add_point>> >>
                 \o (IF add_exp # "" THEN << <<"Additional Explanation", add_exp>> >>
                     ELSE <<>>)
            ELSE <<>>)

\* Mutant of ParseFailure: the cleaned text in place of the raw text.
ParseFailureCleaned(raw) == [kind |-> "error", raw_output |-> cleaned_json(raw)]

\* except json.JSONDecodeError: the returned text "Error: Could not parse
\* analysis results. Raw output:\n" followed by raw_json_str.
ParseFailure(raw) == [kind |-> "error", raw_output |-> raw]

\* Steps 3 and 4 of analyze_grammar_point: an AttributeError leaves the
\* function where .get is called on a value that is no dict.
analyze_grammar_point(raw, level_asked, pinyin_str, zhuyin_str) ==
    LET parsed == json_loads(cleaned_json(raw))
    IN  IF parsed = {}
        THEN ParseFailure(raw)
        ELSE LET data == CHOOSE d \in parsed : TRUE
             IN  IF data.t # "obj" THEN Raised("AttributeError")
                 ELSE IF Get(data, "matched_grammar", EmptyDict).t # "obj"
                      THEN Raised("AttributeError")
                 ELSE IF Get(data, "additional_info", EmptyDict).t # "obj"
                      THEN Raised("AttributeError")
                 ELSE [kind |-> "result",
                       output |-> FormatOutput(data, level_asked, pinyin_str, zhuyin_str)]

(* Backend responses of the model *)

\* A key with its value, or no key.
Field(present, key, value) == IF present THEN key :> value ELSE <<>>

\* matched_grammar: found absent, true or false; level present or not; the
\* grammar point and explanation absent, under the keys of the prompt's
\* schema, or under the keys "point" and "explanation".
MatchedGrammar(found, has_level, naming) ==
    Obj(Field(found # "absent", "found", found = "true")
        @@ Field(has_level, "level", 1)
        @@ Field(naming = "schema", "grammar_point_cn", "GP")
        @@ Field(naming = "schema", "explanation_in_english", "EX")
        @@ Field(naming = "short", "point", "gp")
        @@ Field(naming = "short", "explanation", "ex"))

AdditionalInfo(point, has_exp) ==
    Obj(Field(point # "absent", "point", IF point = "empty" THEN "" ELSE point)
        @@ Field(has_exp, "explanation", "AE"))

MatchedChoices ==
    {<<"absent">>, <<"null">>}
    \cup ({"obj"} \X {"absent", "true", "false"} \X BOOLEAN \X {"none", "schema", "short"})

AdditionalChoices ==
    {<<"absent">>, <<"null">>}
    \cup ({"obj"} \X {"absent", "empty", "None", "X"} \X BOOLEAN)

\* The JSON object a backend answers with.
Response(trans, mg, ai) ==
    Obj(Field(trans = "schema", "english_translation_of_sentence", "TR")
        @@ Field(trans = "short", "translation", "tr")
        @@ Field(mg[1] = "null", "matched_grammar", NonObj("null"))
        @@ (IF mg[1] = "obj"
            THEN "matched_grammar" :> MatchedGrammar(mg[2], mg[3], mg[4])
            ELSE <<>>)
        @@ Field(ai[1] = "null", "additional_info", NonObj("null"))
        @@ (IF ai[1] = "obj"
            THEN "additional_info" :> AdditionalInfo(ai[2], ai[3])
            ELSE <<>>))

\* The text around the body of an answer.
Wrapped(wrap, body) ==
    CASE wrap = "bare" -> <<body>>
      [] wrap = "padded" -> <<WS, body, WS>>
      [] wrap = "fenced" -> <<FenceJson, WS, body, WS, Fence>>
      [] wrap = "plain_fence" -> <<Fence, WS, body, WS, Fence>>

Wraps == {"bare", "padded", "fenced", "plain_fence"}

(* Actions *)

\* raw_json_str = chain.invoke(...): the backend answers with text that is no
\* JSON, with a JSON value that is no object, or with a JSON object.
ChainInvoke ==
    /\ apc = "start"
    /\ \E wrap \in Wraps :
          \/ raw_json_str' = Wrapped(wrap, Garbage)
          \/ \E tag \in {"list", "num", "str", "null"} :
                raw_json_str' = Wrapped(wrap, JsonTok(NonObj(tag)))
          \/ \E trans \in {"none", "schema", "short"},
                mg \in MatchedChoices, ai \in AdditionalChoices :
                raw_json_str' = Wrapped(wrap, JsonTok(Response(trans, mg, ai)))
    /\ apc' = "invoked"
    /\ UNCHANGED <<user_level, outcome>>
    /\ UNCHANGED notAna

\* The rest of analyze_grammar_point.  pypinyin succeeded, or it raised and
\* both strings are "Error".
ParseAndFormat ==
    /\ apc = "invoked"
    /\ \E phonetics \in {<<"PY", "ZY">>, <<"Error", "Error">>} :
          outcome' = analyze_grammar_point(raw_json_str, user_level,
                                           phonetics[1], phonetics[2])
    /\ apc' = "done"
    /\ UNCHANGED <<user_level, raw_json_str>>
    /\ UNCHANGED notAna

AnalyzeInit ==
    /\ RetrIdle /\ CacheIdle /\ RestIdle
    /\ user_level \in 1..MaxLevel
    /\ raw_json_str = <<>>
    /\ outcome = [kind |-> "none"]
    /\ apc = "start"

AnalyzeNext == ChainInvoke \/ ParseAndFormat

SpecAnalyze == AnalyzeInit /\ [][AnalyzeNext]_vars

-----------------------------------------------------------------------------
(* build_verbose of grammar_analysis/build_index_verbose.py.  A document is
   its position in the list the corpus gave; a store is the sequence of the
   documents it holds. *)

batch_size == 10

\* Mutant of Batch: the slice ends one document early.
BatchShort(docs, i, size) == SubSeq(docs, i + 1, Min({i + size - 1, Len(docs)}))

\* batch_docs = docs[i : i + batch_size]
Batch(docs, i, size) == SubSeq(docs, i + 1, Min({i + size, Len(docs)}))

\* FAISS.from_documents(batch_docs, embeddings) for the first batch,
\* vectorstore.add_documents(batch_docs) for the others.
Added(store, batch) ==
    IF store = {} THEN {batch} ELSE {(CHOOSE held \in store : TRUE) \o batch}

\* for i in range(0, total, batch_size): ... with no failure
RECURSIVE BuildBatched(_, _, _, _)
BuildBatched(docs, i, size, store) ==
    IF i >= Len(docs) THEN store
    ELSE BuildBatched(docs, i + size, size, Added(store, Batch(docs, i, size)))

\* The unbatched build of build_vector_store: no store without documents,
\* else FAISS.from_documents(documents, embeddings).
Unbatched(docs) == IF docs = <<>> THEN {} ELSE {docs}

\* except Exception as e: log.error(f"Failed: {e}"); build_verbose returns.
Caught(exc) == [pc |-> "returned", error |-> {exc}]

\* One turn of the loop: the batch is embedded and added, or the embedding
\* backend fails.
EmbedBatch ==
    /\ b_pc = "loop"
    /\ batch_i < Len(b_docs)
    /\ \E ok \in BOOLEAN :
          IF ok
          THEN /\ vectorstore' = Added(vectorstore,
                                       Batch(b_docs, batch_i, batch_size))
               /\ batch_i' = batch_i + batch_size
               /\ UNCHANGED <<b_pc, b_error>>
          ELSE /\ b_pc' = Caught("EmbeddingError").pc
               /\ b_error' = Caught("EmbeddingError").error
               /\ UNCHANGED <<vectorstore, batch_i>>
    /\ UNCHANGED <<b_docs, saved_index>>
    /\ UNCHANGED notBatch

\* The range is exhausted.
LoopEnd ==
    /\ b_pc = "loop"
    /\ batch_i >= Len(b_docs)
    /\ b_pc' = "save"
    /\ UNCHANGED <<b_docs, vectorstore, batch_i, saved_index, b_error>>
    /\ UNCHANGED notBatch

\* vectorstore.save_local(index_path): AttributeError when no batch was made
\* (vectorstore is None), else the directory is written or the write fails.
SaveIndex ==
    /\ b_pc = "save"
    /\ \E ok \in BOOLEAN :
          IF vectorstore = {}
          THEN /\ b_pc' = Caught("AttributeError").pc
               /\ b_error' = Caught("AttributeError").error
               /\ UNCHANGED saved_index
          ELSE IF ok
               THEN /\ saved_index' = vectorstore
                    /\ b_pc' = "returned"
                    /\ UNCHANGED b_error
               ELSE /\ b_pc' = Caught("OSError").pc
                    /\ b_error' = Caught("OSError").error
                    /\ UNCHANGED saved_index
    /\ UNCHANGED <<b_docs, vectorstore, batch_i>>
    /\ UNCHANGED notBatch

BatchInit ==
    /\ RetrIdle /\ CacheIdle /\ AnaIdle /\ CorrIdle /\ TrIdle
    /\ \E n \in 0..MaxDocs : b_docs = [k \in 1..n |-> k]
    /\ vectorstore = {} /\ batch_i = 0 /\ b_pc = "loop"
    /\ saved_index = {} /\ b_error = {}

BatchNext == EmbedBatch \/ LoopEnd \/ SaveIndex

SpecBatch == BatchInit /\ [][BatchNext]_vars

-----------------------------------------------------------------------------
(* correct_transcript.  The reply of the generation backend is
   [kind |-> "raise"] when the call raises, and else
   [kind |-> "content", content |-> the text of the message]. *)

HanLo == 19968
HanHi == 40959

\* '\u4e00' <= char <= '\u9fff'
IsHan(c) == HanLo <= c /\ c <= HanHi

\* sum(1 for char in text if '\u4e00' <= char <= '\u9fff')
chinese_chars(t) == Len(SelectSeq(t, IsHan))

\* len([c for c in text if c.strip() and not c.isspace()])
total_chars(t) == Len(SelectSeq(t, LAMBDA c : ~IsSpace(c)))

\* if not text.strip()
IsBlankText(t) == Strip(t) = <<>>

\* total_chars > 0 and (chinese_chars / total_chars) < 0.1: the quotient of
\* two counts is below 0.1 exactly when ten times the first is below the
\* second.
MostlyForeign(t) ==
    total_chars(t) > 0 /\ 10 * chinese_chars(t) < total_chars(t)

\* "Output:", "output:", "Result:", "Corrected:", "corrected:"
prefixes_to_remove ==
    << <<79, 117, 116, 112, 117, 116, 58>>,
       <<111, 117, 116, 112, 117, 116, 58>>,
       <<82, 101, 115, 117, 108, 116, 58>>,
       <<67, 111, 114, 114, 101, 99, 116, 101, 100, 58>>,
       <<99, 111, 114, 114, 101, 99, 116, 101, 100, 58>> >>

\* content.startswith(prefix)
StartsWith(s, prefix) ==
    Len(s) >= Len(prefix) /\ SubSeq(s, 1, Len(prefix)) = prefix

\* for prefix in prefixes_to_remove: each prefix is tried once, in this order
RECURSIVE RemovePrefixes(_, _)
RemovePrefixes(c, prefixes) ==
    IF prefixes = <<>> THEN c
    ELSE LET prefix == Head(prefixes)
             rest == IF StartsWith(c, prefix)
                     THEN Strip(SubSeq(c, Len(prefix) + 1, Len(c)))
                     ELSE c
         IN  RemovePrefixes(rest, Tail(prefixes))

Abs(n) == IF n < 0 THEN -n ELSE n

\* Mutant of WildlyDifferent: a difference of half the length counts.
WildlyDifferentOrHalf(c, t) == 2 * Abs(Len(c) - Len(t)) >= Len(t)

\* abs(len(content) - len(text)) > len(text) * 0.5
WildlyDifferent(c, t) == 2 * Abs(Len(c) - Len(t)) > Len(t)

\* Lines 97-108: the clean-up and the length validation of content.
Validated(t, c) ==
    LET cleaned == RemovePrefixes(c, prefixes_to_remove)
    IN  IF WildlyDifferent(cleaned, t) THEN t ELSE cleaned

\* if USE_OLLAMA: ... elif client: ...
HasBackend(ollama, cl) == ollama \/ cl # {}

\* Mutant of SkipsBackend: the gate passes every text with a Han character.
SkipsBackendNoHan(t) ==
    IsBlankText(t) \/ (total_chars(t) > 0 /\ chinese_chars(t) = 0)

\* The early returns of lines 63-74.
SkipsBackend(t) == IsBlankText(t) \/ MostlyForeign(t)

\* Mutant of correct_transcript: an exception of the backend leaves no text.
correct_transcript_unguarded(t, ollama, cl, reply) ==
    IF SkipsBackend(t) THEN t
    ELSE IF ~HasBackend(ollama, cl) THEN Validated(t, t)
    ELSE IF reply.kind = "raise" THEN <<>>
    ELSE Validated(t, Strip(reply.content))

\* correct_transcript(text, ...) when the backend, if called, gives reply.
correct_transcript(t, ollama, cl, reply) ==
    IF SkipsBackend(t) THEN t
    ELSE IF ~HasBackend(ollama, cl) THEN Validated(t, t)
    ELSE IF reply.kind = "raise" THEN t
    ELSE Validated(t, Strip(reply.content))

(* Texts and replies of the model *)

Rep(c, n) == [i \in 1..n |-> c]

\* h times the character U+5B78 followed by l times the letter a.
Mix(h, l) == Rep(23416, h) \o Rep(97, l)

CorrectTexts ==
    {pad \o Mix(h, l) : h \in {0, 1, 2, 20}, l \in 0..MaxLatin,
                        pad \in {<<>>, <<SP>>}}
    \cup {prefixes_to_remove[1] \o Mix(2, 0)}

\* A reply text of k characters, alone, inside white space, or behind
\* prefixes.
ReplyTexts ==
    UNION {{Mix(k, 0),
            <<SP>> \o Mix(k, 0) \o <<NL>>,
            prefixes_to_remove[1] \o <<SP>> \o Mix(k, 0),
            prefixes_to_remove[4] \o prefixes_to_remove[2] \o Mix(k, 0),
            prefixes_to_remove[2] \o prefixes_to_remove[1] \o Mix(k, 0)}
           : k \in 0..MaxOut}

Replies ==
    {[kind |-> "raise"]} \cup {[kind |-> "content", content |-> c] : c \in ReplyTexts}

\* USE_OLLAMA and client: the two backends, both, or none.
Configs == {<<TRUE, {}>>, <<FALSE, {"OpenAI"}>>, <<FALSE, {}>>}

(* Actions *)

\* Lines 63-81: the early returns, else content = text.
CorrectEnter ==
    /\ ct_pc = "called"
    /\ IF SkipsBackend(ct_text)
       THEN ct_result' = {ct_text} /\ ct_pc' = "returned"
       ELSE ct_result' = ct_result /\ ct_pc' = "chat"
    /\ ct_content' = ct_text
    /\ UNCHANGED <<USE_OLLAMA, client, ct_text, ct_reply, ct_calls>>
    /\ UNCHANGED notCorr

\* Lines 83-95: the call of the configured backend; an exception is caught
\* at line 110 and the text returned.
Chat ==
    /\ ct_pc = "chat"
    /\ HasBackend(USE_OLLAMA, client)
    /\ \E reply \in Replies :
          /\ ct_reply' = {reply}
          /\ IF reply.kind = "raise"
             THEN /\ ct_result' = {ct_text} /\ ct_pc' = "returned"
                  /\ ct_content' = ct_content
             ELSE /\ ct_result' = ct_result /\ ct_pc' = "clean"
                  /\ ct_content' = Strip(reply.content)
    /\ ct_calls' = ct_calls + 1
    /\ UNCHANGED <<USE_OLLAMA, client, ct_text>>
    /\ UNCHANGED notCorr

\* Neither branch of lines 84-95 is taken: content stays the text.
NoChat ==
    /\ ct_pc = "chat"
    /\ ~HasBackend(USE_OLLAMA, client)
    /\ ct_pc' = "clean"
    /\ UNCHANGED <<USE_OLLAMA, client, ct_text, ct_content, ct_reply,
                   ct_result, ct_calls>>
    /\ UNCHANGED notCorr

\* Lines 97-108.
Validate ==
    /\ ct_pc = "clean"
    /\ ct_content' = RemovePrefixes(ct_content, prefixes_to_remove)
    /\ ct_result' = {Validated(ct_text, ct_content)}
    /\ ct_pc' = "returned"
    /\ UNCHANGED <<USE_OLLAMA, client, ct_text, ct_reply, ct_calls>>
    /\ UNCHANGED notCorr

CorrectInit ==
    /\ RetrIdle /\ CacheIdle /\ AnaIdle /\ BatchIdle /\ TrIdle
    /\ \E cfg \in Configs : USE_OLLAMA = cfg[1] /\ client = cfg[2]
    /\ ct_text \in CorrectTexts
    /\ ct_content = <<>> /\ ct_reply = {} /\ ct_result = {}
    /\ ct_pc = "called" /\ ct_calls = 0

CorrectNext == CorrectEnter \/ Chat \/ NoChat \/ Validate

SpecCorrect == CorrectInit /\ [][CorrectNext]_vars

\* correct_transcript under fair scheduling of its own steps.  The answer of
\* the backend (Chat) is not the program's step: ollama.chat and
\* client.chat.completions.create are called without a timeout argument, so
\* nothing in the function ends a call the backend does not answer.
SpecCorrectFair ==
    /\ CorrectInit /\ [][CorrectNext]_vars
    /\ WF_vars(CorrectEnter) /\ WF_vars(NoChat) /\ WF_vars(Validate)

-----------------------------------------------------------------------------
(* transcribe_audio.  Times are in tenths of a second.  A unit is
   [transcript, progress, segment], its segment {} for None and else
   {[start, end, text, ruby_text]}.  The generator runs only while its
   consumer waits for a unit. *)

\* cc = OpenCC('s2twp'): simplified forms become traditional ones (U+5B66 to
\* U+5B78, U+4E60 to U+7FD2), other characters stay.
S2T == {<<23398, 23416>>, <<20064, 32722>>}

ConvertChar(c) ==
    IF \E p \in S2T : p[1] = c THEN (CHOOSE p \in S2T : p[1] = c)[2] ELSE c

\* cc.convert(text)
convert(t) == [i \in 1..Len(t) |-> ConvertChar(t[i])]

\* The decimal digits of n.
RECURSIVE Digits(_)
Digits(n) == IF n < 10 THEN <<48 + n>> ELSE Digits(n \div 10) \o <<48 + (n % 10)>>

\* f"{n:02d}"
Pad2(n) == IF n < 10 THEN <<48>> \o Digits(n) ELSE Digits(n)

\* Mutant of format_time: the seconds are not reduced modulo 60.
format_time_total(seconds) ==
    Pad2(seconds \div 600) \o <<58>> \o Pad2(seconds \div 10)

\* m = int(seconds // 60); s = int(seconds % 60); f"{m:02d}:{s:02d}"
format_time(seconds) ==
    Pad2(seconds \div 600) \o <<58>> \o Pad2((seconds % 600) \div 10)

\* f"[{start_time}] {text}\n"
formatted_line(start, t) ==
    <<91>> \o format_time(start) \o <<93, SP>> \o t \o <<NL>>

\* progress = min(int((seg_info["end"] / duration) * 100), 100) if duration > 0
Progress(end, dur) ==
    IF dur > 0 THEN Min({(100 * end) \div dur, 100}) ELSE 0

\* Mutant of Collected: a segment without text is not collected.
CollectedNonBlank(all, seg) ==
    IF Strip(seg.text) = <<>> THEN all
    ELSE Append(all, [text |-> convert(Strip(seg.text)),
                      start |-> seg.start, end |-> seg.end])

\* Lines 148-155: the segment is normalized and appended.
Collected(all, seg) ==
    Append(all, [text |-> convert(Strip(seg.text)),
                 start |-> seg.start, end |-> seg.end])

\* Mutant of PrevText: the text of the segment itself.
PrevTextCurrent(all, i) == all[i + 1].text

\* prev_text = all_segments[i-1]["text"] if i > 0 else ""
PrevText(all, i) == IF i > 0 THEN all[i].text ELSE <<>>

\* next_text = all_segments[i+1]["text"] if i < len(all_segments) - 1 else ""
NextText(all, i) == IF i < Len(all) - 1 THEN all[i + 2].text ELSE <<>>

\* "(" U+6C92 U+6709 U+524D U+4E00 U+53E5 ")" and the same with U+4E0B
NoPrev == <<40, 27794, 26377, 21069, 19968, 21477, 41>>
NoNext == <<40, 27794, 26377, 19979, 19968, 21477, 41>>

\* CORRECTION_PROMPT.format(text=..., prev=..., next=...): the fields of the
\* prompt.
Prompt(t, prev_text, next_text) ==
    [text |-> t,
     prev |-> IF prev_text # <<>> THEN prev_text ELSE NoPrev,
     next |-> IF next_text # <<>> THEN next_text ELSE NoNext]

\* pinyin(char, style=Style.BOPOMOFO)[0][0]: a reading in Bopomofo symbols
\* (U+3105..U+3129), here one symbol that stands for it.
Zhuyin(c) == <<12549 + (c % 37)>>

\* Lines 187-202: one entry per character of text; <<>> is the empty tag.
ruby_text(t) ==
    [i \in 1..Len(t) |->
        [char |-> t[i], zhuyin |-> IF IsHan(t[i]) THEN Zhuyin(t[i]) ELSE <<>>]]

\* Mutant of EmittedSegment: the ruby entries are made before the second
\* conversion.
EmittedSegmentEarlyRuby(seg_info, corrected) ==
    [start |-> seg_info.start, end |-> seg_info.end,
     text |-> convert(corrected), ruby_text |-> ruby_text(corrected)]

\* Lines 181-221: the corrected text is converted once more and the segment
\* of the unit is made from it.
EmittedSegment(seg_info, corrected) ==
    LET t == convert(corrected)
    IN  [start |-> seg_info.start, end |-> seg_info.end,
         text |-> t, ruby_text |-> ruby_text(t)]

(* Segments and replies of the model *)

\* Texts of the recognizer: simplified with white space around, traditional,
\* English, blank.
RawTexts ==
    << <<SP, 23398, 97, SP>>,
       <<23416, 32722, 20102>>,
       <<72, 101, 108, 108, 111>>,
       <<SP, SP>> >>

\* First start and length of the segments: within the first minute, across
\* a minute, across the hundredth minute.
Timelines == {<<0, 15>>, <<595, 7>>, <<59990, 25>>}

Recognized(n, shift, tl) ==
    [k \in 1..n |->
        [text |-> RawTexts[((k + shift) % Len(RawTexts)) + 1],
         start |-> tl[1] + (k - 1) * tl[2],
         end |-> tl[1] + k * tl[2]]]

\* Replies to the correction of t: an exception, t itself, t with its Han
\* characters replaced by a simplified one behind a prefix, nothing.
SegReplies(t) ==
    {[kind |-> "raise"],
     [kind |-> "content", content |-> t],
     [kind |-> "content",
      content |-> prefixes_to_remove[1] \o <<SP>>
                  \o [i \in 1..Len(t) |-> IF IsHan(t[i]) THEN 20064 ELSE t[i]]],
     [kind |-> "content", content |-> <<>>]}

\* Mutant of Suspended: the generator runs on after a unit.
NotSuspended(yielded, c) == c

\* yield: the generator stops at the unit until the consumer asks again.
Suspended(yielded, c) == IF yielded THEN "holding" ELSE c

(* Actions *)

\* The consumer (for partial in generator) asks for the next unit: the
\* generator runs from where it was suspended.
Ask ==
    /\ consumer \in {"created", "holding"}
    /\ consumer' = "waiting"
    /\ UNCHANGED <<segments, all_segments, seg_i, tr_pc, units, full_text,
                   duration, chat_log, outstanding>>
    /\ UNCHANGED notTr

\* The consumer stops: the generator is closed where it was suspended and
\* runs no further.
Stop ==
    /\ consumer \in {"created", "holding"}
    /\ consumer' = "closed"
    /\ UNCHANGED <<segments, all_segments, seg_i, tr_pc, units, full_text,
                   duration, chat_log, outstanding>>
    /\ UNCHANGED notTr

\* for seg in segments: one segment is collected; every fifth one is followed
\* by a progress unit, at which the generator is suspended.
Collect ==
    /\ consumer = "waiting"
    /\ tr_pc = "pass1"
    /\ seg_i < Len(segments)
    /\ all_segments' = Collected(all_segments, segments[seg_i + 1])
    /\ seg_i' = seg_i + 1
    /\ units' = IF (seg_i + 1) % 5 = 0
                THEN Append(units, [transcript |-> <<>>, progress |-> 5,
                                    segment |-> {}])
                ELSE units
    /\ consumer' = Suspended((seg_i + 1) % 5 = 0, consumer)
    /\ UNCHANGED <<segments, tr_pc, full_text, duration, chat_log, outstanding>>
    /\ UNCHANGED notTr

\* The first loop ends and the second begins.
SecondPass ==
    /\ consumer = "waiting"
    /\ tr_pc = "pass1"
    /\ seg_i = Len(segments)
    /\ tr_pc' = "pass2"
    /\ seg_i' = 0
    /\ UNCHANGED <<segments, all_segments, units, full_text, duration,
                   chat_log, outstanding, consumer>>
    /\ UNCHANGED notTr

\* correct_transcript reaches its backend for the segment of index seg_i.
Called(t) == ~SkipsBackend(t) /\ HasBackend(USE_OLLAMA, client)

\* Lines 168-177 and 76-95 for the segment of index seg_i: the prompt is
\* built from the segment and its neighbours and the backend call begins.
StartChat ==
    /\ consumer = "waiting"
    /\ tr_pc = "pass2"
    /\ seg_i < Len(all_segments)
    /\ Called(all_segments[seg_i + 1].text)
    /\ outstanding' = {Prompt(all_segments[seg_i + 1].text,
                              PrevText(all_segments, seg_i),
                              NextText(all_segments, seg_i))}
    /\ tr_pc' = "chat"
    /\ UNCHANGED <<segments, all_segments, seg_i, units, full_text, duration,
                   chat_log, consumer>>
    /\ UNCHANGED notTr

\* Lines 168-222 for the segment of index seg_i, from the answer of the
\* backend if it was called: the corrected text, its conversion, the line of
\* the transcript, the unit, at which the generator is suspended.
CorrectSegment ==
    /\ consumer = "waiting"
    /\ seg_i < Len(all_segments)
    /\ \/ tr_pc = "chat"
       \/ tr_pc = "pass2" /\ ~Called(all_segments[seg_i + 1].text)
    /\ LET seg_info == all_segments[seg_i + 1]
       IN  \E reply \in IF tr_pc = "chat" THEN SegReplies(seg_info.text)
                        ELSE {[kind |-> "none"]} :
             LET g == EmittedSegment(seg_info,
                         correct_transcript(seg_info.text, USE_OLLAMA,
                                            client, reply))
                 line == formatted_line(seg_info.start, g.text)
             IN  /\ full_text' = full_text \o line
                 /\ units' = Append(units,
                       [transcript |-> full_text \o line,
                        progress |-> Progress(seg_info.end, duration),
                        segment |-> {g}])
                 /\ chat_log' = Append(chat_log,
                       [prev |-> PrevText(all_segments, seg_i),
                        next |-> NextText(all_segments, seg_i),
                        kind |-> reply.kind,
                        prompt |-> outstanding])
    /\ seg_i' = seg_i + 1
    /\ tr_pc' = "pass2"
    /\ outstanding' = {}
    /\ consumer' = Suspended(TRUE, consumer)
    /\ UNCHANGED <<segments, all_segments, duration>>
    /\ UNCHANGED notTr

\* The second loop ends: the generator is exhausted and the consumer's loop
\* ends.
Finish ==
    /\ consumer = "waiting"
    /\ tr_pc = "pass2"
    /\ seg_i = Len(all_segments)
    /\ tr_pc' = "done"
    /\ consumer' = "finished"
    /\ UNCHANGED <<segments, all_segments, seg_i, units, full_text, duration,
                   chat_log, outstanding>>
    /\ UNCHANGED notTr

\* The durations of the model: none given, shorter than the recognized
\* speech, far longer than it.
Durations == {0, 40, 6000}

TranscribeInit ==
    /\ RetrIdle /\ CacheIdle /\ AnaIdle /\ BatchIdle
    /\ \E cfg \in Configs : USE_OLLAMA = cfg[1] /\ client = cfg[2]
    /\ ct_text = <<>> /\ ct_content = <<>> /\ ct_reply = {} /\ ct_result = {}
    /\ ct_pc = "idle" /\ ct_calls = 0
    /\ \E n \in 0..MaxSegs, shift \in 0..(Len(RawTexts) - 1), tl \in Timelines :
          segments = Recognized(n, shift, tl)
    /\ duration \in Durations
    /\ all_segments = <<>> /\ seg_i = 0 /\ tr_pc = "pass1"
    /\ units = <<>> /\ full_text = <<>> /\ chat_log = <<>>
    /\ outstanding = {} /\ consumer = "created"

TranscribeNext ==
    Ask \/ Stop \/ Collect \/ SecondPass \/ StartChat \/ CorrectSegment \/ Finish

SpecTranscribe == TranscribeInit /\ [][TranscribeNext]_vars

-----------------------------------------------------------------------------
(* Properties of the parser and of retrieval *)

IsBlank(s) == \A i \in 1..Len(s) : IsSpace(s[i])

NonSpace(s) == SelectSeq(s, LAMBDA c : ~IsSpace(c))

\* The pieces of the corpus between '//' separators that are not blank.
KeptChunks == SelectSeq(Split(content), LAMBDA c : ~IsBlank(c))

\* Decimal value of a digit string, most significant digit first.
RECURSIVE Decimal(_, _)
Decimal(ds, acc) ==
    IF ds = <<>> THEN acc ELSE Decimal(Tail(ds), 10 * acc + DigitValue(ds[1]))

\* <<i, N>> for every level marker of chunk c: a tier label at i, white
\* space, 第, the digits of N, an optional '*', 級.
Markers(c) ==
    LET n == Len(c)
        tiers == {i \in 1..(n - 1) :
                    <<c[i], c[i + 1]>> \in {<<Ji, Chu>>, <<Jin, Jie>>}}
        \* last position of white space after the tier label at i, before 第
        spaces(i) == {w \in (i + 2)..(n - 1) :
                        /\ \A k \in (i + 2)..w : IsSpace(c[k])
                        /\ c[w + 1] = Di}
        \* last position of the digits after the 第 at w + 1, before [*]級
        digits(w) == {d \in (w + 2)..(n - 1) :
                        /\ \A k \in (w + 2)..d : IsDigit(c[k])
                        /\ \/ c[d + 1] = Grade
                           \/ c[d + 1] = Star /\ d + 2 <= n /\ c[d + 2] = Grade}
    IN  UNION { UNION { { <<i, Decimal(SubSeq(c, w + 2, d), 0)>> : d \in digits(w) }
                        : w \in spaces(i) }
                : i \in tiers }

\* c with every run of newlines replaced by one space: the first newline of a
\* run becomes a space and the others go.
RunsToSpace(c) ==
    LET keep == [p \in 1..Len(c) |-> c[p] # NL \/ p = 1 \/ c[p - 1] # NL]
        kept == SelectSeq([p \in 1..Len(c) |-> p], LAMBDA p : keep[p])
    IN  [r \in 1..Len(kept) |-> IF c[kept[r]] = NL THEN SP ELSE c[kept[r]]]

\* "//基礎 第1級\n我是學生。//" and the text of its one document.
ExampleCorpus ==
    <<Slash, Slash, Ji, Chu, SP, Di, 49, Grade, NL,
      25105, 26159, 23416, 29983, 12290, Slash, Slash>>
ExampleText ==
    <<Ji, Chu, SP, Di, 49, Grade, SP, 25105, 26159, 23416, 29983, 12290>>

Loaded == rpc \in {"docs", "index", "searched"}
Searched == rpc = "searched"
QueryLevel == CHOOSE l \in qlevel : TRUE

\* C4: a retrieval at level L returns only entries of the store whose level
\* is L (so none without a level), at most K = 5 of them, nearest first.
C4_FilteredRetrieval ==
    Searched =>
        /\ Len(hits) <= K
        /\ \A i \in 1..Len(hits) :
              /\ \E j \in 1..Len(index) : index[j] = hits[i]
              /\ hits[i].metadata = {<<"level", QueryLevel>>}
        /\ \A i, j \in 1..Len(hits) : i < j => hits[i].dist <= hits[j].dist

\* Five hits out of more than five entries of the level, in a store that holds
\* a nearer entry without a level and was not filled in order of distance.
C4_Witness ==
    /\ Searched /\ Len(hits) = K
    /\ Cardinality({j \in 1..Len(index) :
                      index[j].metadata = {<<"level", QueryLevel>>}}) > K
    /\ \E j \in 1..Len(index) :
          index[j].metadata = {} /\ index[j].dist < hits[1].dist
    /\ \E i, j \in 1..Len(index) : i < j /\ index[j].dist < index[i].dist

\* C5: the retrieval at level L returns exactly min(5, number of entries of
\* level L in the store).
C5_BoundAfterFilter ==
    Searched =>
        LET n == Cardinality({j \in 1..Len(index) :
                                index[j].metadata = {<<"level", QueryLevel>>}})
        IN  Len(hits) = IF n < K THEN n ELSE K

\* C6: one document per non-blank chunk, in the order of the chunks, none
\* for a blank chunk.
C6_OneDocumentPerChunk ==
    Loaded =>
        LET kept == KeptChunks
        IN  /\ Len(documents) = Len(kept)
            /\ \A k \in 1..Len(documents) :
                  k <= Len(kept) =>
                    NonSpace(documents[k].page_content) = NonSpace(kept[k])

\* Two documents parsed from a corpus with a blank chunk between their chunks.
C6_Witness ==
    /\ Loaded /\ Len(documents) = 2
    /\ \E i \in 2..(Len(Split(content)) - 1) :
          /\ IsBlank(Split(content)[i])
          /\ ~IsBlank(Split(content)[i - 1])
          /\ ~IsBlank(Split(content)[i + 1])

\* C7: a chunk with a level marker yields a document of that marker's level
\* N; every run of newlines in a chunk becomes one space; the example block
\* yields one document with the example text and level 1.
C7_LevelAndNewlines ==
    Loaded =>
        LET kept == KeptChunks
        IN  /\ \A k \in 1..Len(kept) :
                  LET marks == Markers(kept[k])
                      lm == Min({m[1] : m \in marks})
                  IN  /\ k <= Len(documents)
                      /\ marks # {} =>
                            \E n \in {m[2] : m \in marks} :
                              /\ <<lm, n>> \in marks
                              /\ documents[k].metadata = {<<"level", n>>}
                      /\ documents[k].page_content = RunsToSpace(Strip(kept[k]))
            /\ content = ExampleCorpus =>
                  documents = <<[page_content |-> ExampleText,
                                 metadata |-> {<<"level", 1>>}]>>

\* The example corpus parsed into its one document.
C7_Witness ==
    /\ Loaded /\ content = ExampleCorpus /\ Len(documents) = 1

-----------------------------------------------------------------------------
(* Properties of get_rag_chain *)

\* C1: a call that began after some call had returned a chain returns that
\* same chain and performs no load, build, save or LLM construction.
C1_LaterCallsReuseChain ==
    \A t \in Threads :
        (pc[t] = "returned" /\ late[t]) => (ret[t] = first /\ ops[t] = {})

\* C2: first-time construction is serialized: the index is built at most
\* once and saved at most once, and all callers hold the same chain.
C2_ConstructionSerialized ==
    /\ builds <= 1
    /\ saves <= 1
    /\ \A t, u \in Threads : (ret[t] # {} /\ ret[u] # {}) => ret[t] = ret[u]

-----------------------------------------------------------------------------
(* Properties of analyze_grammar_point *)

Done == apc = "done"

\* The tokens of a text that are not white space.
NonWs(toks) == SelectSeq(toks, LAMBDA x : x.tok # "ws")

\* The text is one JSON value, possibly after a leading ```json fence and
\* before a trailing ``` fence, with white space anywhere between them.
IsJsonText(toks) ==
    LET nw == NonWs(toks)
        n == Len(nw)
        lead == IF n > 0 /\ nw[1].tok = "fence_json" THEN 1 ELSE 0
        trail == IF n > lead /\ nw[n].tok = "fence" THEN 1 ELSE 0
    IN  n = lead + trail + 1 /\ nw[lead + 1].tok = "json"

\* The value of that text.
JsonOf(toks) == (CHOOSE x \in {toks[i] : i \in 1..Len(toks)} : x.tok = "json").val

\* The values the output gives under a label.
LineValues(label) ==
    {outcome.output[i][2] :
        i \in {j \in 1..Len(outcome.output) :
                 Len(outcome.output[j]) = 2 /\ outcome.output[j][1] = label}}

HasLine(label) ==
    \E i \in 1..Len(outcome.output) : outcome.output[i][1] = label

\* The response has the keys of the generation-backend response contract.
Conforms(d) ==
    /\ d.t = "obj"
    /\ DOMAIN d.v = {"english_translation_of_sentence", "matched_grammar",
                     "additional_info"}
    /\ d.v["matched_grammar"].t = "obj"
    /\ DOMAIN d.v["matched_grammar"].v =
          {"found", "level", "grammar_point_cn", "explanation_in_english"}
    /\ d.v["additional_info"].t = "obj"
    /\ DOMAIN d.v["additional_info"].v = {"point", "explanation"}

\* C3: for a response that conforms to the contract with found = true, the
\* result carries the response's translation, grammar point and explanation.
C3_ContractFieldsCarried ==
    (Done /\ IsJsonText(raw_json_str) /\ Conforms(JsonOf(raw_json_str))
          /\ JsonOf(raw_json_str).v["matched_grammar"].v["found"]) =>
        LET d == JsonOf(raw_json_str).v
        IN  /\ outcome.kind = "result"
            /\ LineValues("English Translation") =
                  {d["english_translation_of_sentence"]}
            /\ LineValues("Point") = {d["matched_grammar"].v["grammar_point_cn"]}
            /\ LineValues("Explanation") =
                  {d["matched_grammar"].v["explanation_in_english"]}

\* C9: when the backend's text is no JSON, the call does not raise: it
\* returns the error result, which holds the raw text unchanged.
C9_MalformedJsonReturned ==
    (Done /\ ~IsJsonText(raw_json_str)) =>
        (outcome.kind = "error" /\ outcome.raw_output = raw_json_str)

\* The error result for a text with white space and fences around it.
C9_Witness ==
    /\ Done /\ ~IsJsonText(raw_json_str) /\ outcome.kind = "error"
    /\ cleaned_json(raw_json_str) # raw_json_str

HasKey(d, key) == key \in DOMAIN d.v

\* C10: for a response that parses as a JSON object the call returns a
\* normal result in which every missing key has its default (found = false,
\* level = the requested level, empty strings); without additional_info the
\* result has no Additional Information part.
C10_MissingKeysDefaulted ==
    (Done /\ IsJsonText(raw_json_str) /\ JsonOf(raw_json_str).t = "obj") =>
        LET d == JsonOf(raw_json_str)
            mg == IF HasKey(d, "matched_grammar") THEN d.v["matched_grammar"]
                  ELSE EmptyDict
        IN  /\ outcome.kind = "result"
            /\ DOMAIN d.v \cap {"english_translation_of_sentence", "translation"} = {}
                  => LineValues("English Translation") = {""}
            /\ ~HasKey(mg, "found") =>
                  LineValues("No matching grammar points found for Level")
                    = {user_level}
            /\ (HasLine("Level") /\ ~HasKey(mg, "level")) =>
                  LineValues("Level") = {user_level}
            /\ (HasLine("Point")
                  /\ DOMAIN mg.v \cap {"grammar_point_cn", "point"} = {}) =>
                  LineValues("Point") = {""}
            /\ (HasLine("Explanation")
                  /\ DOMAIN mg.v \cap {"explanation_in_english", "explanation"} = {}) =>
                  LineValues("Explanation") = {""}
            /\ ~HasKey(d, "additional_info") =>
                  ~HasLine("3. **Additional Information**:")

-----------------------------------------------------------------------------
(* Properties of correct_transcript *)

Corrected == ct_pc = "returned"

\* The backend was called and gave a text.
GotContent == \E r \in ct_reply : r.kind = "content"

\* Number of characters of ct_text in U+4E00..U+9FFF, and of its characters
\* that are no white space.
HanCount == Cardinality({i \in 1..Len(ct_text) :
                            ct_text[i] >= 19968 /\ ct_text[i] <= 40959})
NonWsCount == Cardinality({i \in 1..Len(ct_text) : ~IsSpace(ct_text[i])})

\* C11: a backend output whose length after the clean-up differs from the
\* length of the text by more than 50% of that length is discarded and the
\* text returned unchanged; any other output is returned as the correction.
C11_LengthValidation ==
    (Corrected /\ GotContent) =>
        LET n == Len(ct_text)
            d == IF Len(ct_content) >= n THEN Len(ct_content) - n
                 ELSE n - Len(ct_content)
        IN  ct_result = {IF 100 * d > 50 * n THEN ct_text ELSE ct_content}

\* The text of 20 characters is returned for an output of 5 characters.
C11_Witness ==
    /\ Corrected /\ GotContent
    /\ Len(ct_text) = 20 /\ Len(ct_content) = 5 /\ ct_result = {ct_text}

\* C12: a text with fewer than 10% of its non-blank characters in
\* U+4E00..U+9FFF is returned unchanged without a backend call; for 10% or
\* more the configured backend is called (once), provided one is configured.
C12_ScriptRatioGate ==
    Corrected =>
        /\ 10 * HanCount < NonWsCount => (ct_result = {ct_text} /\ ct_calls = 0)
        /\ (NonWsCount > 0 /\ 10 * HanCount >= NonWsCount
                /\ (USE_OLLAMA \/ client # {})) => ct_calls = 1

\* C12 as stated: for 10% or more the backend is consulted.
C12_BackendAlwaysConsulted ==
    Corrected =>
        /\ 10 * HanCount < NonWsCount => (ct_result = {ct_text} /\ ct_calls = 0)
        /\ (NonWsCount > 0 /\ 10 * HanCount >= NonWsCount) => ct_calls = 1

\* A text with characters of the script, but fewer than 10%, is returned
\* without a call.
C12_Witness ==
    /\ Corrected /\ HanCount > 0 /\ 10 * HanCount < NonWsCount
    /\ ct_result = {ct_text} /\ ct_calls = 0 /\ (USE_OLLAMA \/ client # {})

-----------------------------------------------------------------------------
(* Properties of transcribe_audio *)

\* The units that carry a segment, in the order of their emission.
SegUnits == SelectSeq(units, LAMBDA u : u.segment # {})

SegOf(u) == CHOOSE g \in u.segment : TRUE

Exhausted == tr_pc = "done"

\* The segment texts after the first pass, computed from the input.
Normalized(k) == convert(Strip(segments[k].text))

C14_OneUnitPerSegment ==
    LET su == SegUnits
    IN  /\ Len(su) <= Len(segments)
        /\ \A k \in 1..Len(su) :
              k <= Len(segments) =>
                  /\ SegOf(su[k]).start = segments[k].start
                  /\ SegOf(su[k]).end = segments[k].end
        /\ Exhausted => Len(su) = Len(segments)

\* The stream of MaxSegs segments, one of them blank, has ended.
C14_Witness ==
    /\ Exhausted /\ Len(segments) = MaxSegs /\ Len(SegUnits) = MaxSegs
    /\ \E k \in 1..Len(segments) : Strip(segments[k].text) = <<>>
    /\ \E k \in 1..Len(SegUnits) : SegOf(SegUnits[k]).text # segments[k].text

\* n as two decimal digits at least.
RECURSIVE TwoDigits(_)
TwoDigits(n) ==
    IF n < 100 THEN <<48 + (n \div 10), 48 + (n % 10)>>
    ELSE TwoDigits(n \div 10) \o <<48 + (n % 10)>>

\* The line "[MM:SS] text" of a segment: MM the whole minutes of its start
\* and SS the whole seconds beyond them.
LineOf(g) ==
    LET whole == g.start \div 10
        mm == whole \div 60
        ss == whole - 60 * mm
    IN  <<91>> \o TwoDigits(mm) \o <<58>> \o TwoDigits(ss) \o <<93, 32>>
        \o g.text \o <<10>>

\* The lines of the first j segment-carrying units.
RECURSIVE Lines(_, _)
Lines(su, j) == IF j = 0 THEN <<>> ELSE Lines(su, j - 1) \o LineOf(SegOf(su[j]))

\* C15: the transcript of every unit of the second pass is the
\* concatenation of the lines "[MM:SS] text" of the segments corrected so
\* far, so each transcript is a prefix of the next.
C15_CumulativeTranscript ==
    LET su == SegUnits
    IN  \A j \in 1..Len(su) :
          /\ su[j].transcript = Lines(su, j)
          /\ j > 1 =>
                /\ Len(su[j - 1].transcript) <= Len(su[j].transcript)
                /\ SubSeq(su[j].transcript, 1, Len(su[j - 1].transcript))
                      = su[j - 1].transcript

\* A transcript of several lines whose last segment starts past a minute,
\* between two whole seconds, fewer than ten seconds into the minute.
C15_Witness ==
    \E j \in 2..Len(SegUnits) :
        LET g == SegOf(SegUnits[j])
        IN  /\ g.start >= 600 /\ g.start % 10 # 0 /\ (g.start % 600) < 100
            /\ SegUnits[j].transcript = Lines(SegUnits, j)
            /\ g.text # <<>>

-----------------------------------------------------------------------------
(* Properties of build_vector_store and of failed constructions *)

\* build_vector_store has returned a store to the thread.
HasStore(t) == pc[t] \in {"save", "saving", "llm", "store", "returned"}

\* The thread tried to load the persisted index and the load failed.
LoadFailed(t) == "load" \in ops[t] /\ vstore[t] # {"loaded"}

\* C16: after a failed load of the persisted index the call neither raises
\* that failure nor returns what was loaded: the store it returns is the
\* one rebuilt from the documents of the corpus.
C16_FailedLoadRebuilds ==
    \A t \in Threads :
        LoadFailed(t) =>
            /\ raised_exc[t] \subseteq
                  {"FileNotFoundError", "ValueError", "EmbeddingError"}
            /\ pc[t] = "raised" => (raised_exc[t] # {} /\ "corpus" \in ops[t])
            /\ HasStore(t) =>
                  (vstore[t] = {"built"} /\ {"corpus", "build"} \subseteq ops[t])

\* A call that found a corrupt directory returned a chain over a rebuilt
\* store.
C16_Witness ==
    \E t \in Threads :
        /\ LoadFailed(t) /\ pc[t] = "returned" /\ ret[t] # {}
        /\ vstore[t] = {"built"} /\ disk = "valid"

\* C17: when build_vector_store reads a corpus that is missing or has no
\* documents (no persisted index could be loaded), it raises
\* FileNotFoundError, resp. ValueError, returns no store and saves nothing.
C17_CorpusFailureRaised ==
    \A t \in Threads :
        (corpus # "ok" /\ "corpus" \in ops[t]) =>
            /\ pc[t] = "raised"
            /\ raised_exc[t] = IF corpus = "missing" THEN {"FileNotFoundError"}
                               ELSE {"ValueError"}
            /\ vstore[t] = {} /\ ret[t] = {}
            /\ "save" \notin ops[t] /\ saves = 0 /\ disk \in {"absent", "corrupt"}

\* C17 as stated: whenever the corpus is missing or without documents, a
\* call of build_vector_store that has ended has raised and returned no
\* store.
C17_AlwaysRaised ==
    \A t \in Threads :
        (corpus # "ok" /\ ops[t] # {}
            /\ pc[t] \in {"llm", "store", "returned", "raised"}) =>
            /\ pc[t] = "raised"
            /\ vstore[t] = {}

\* A call raised ValueError after the load of a corrupt directory failed.
C17_Witness ==
    \E t \in Threads :
        /\ corpus = "empty" /\ "corpus" \in ops[t] /\ LoadFailed(t)
        /\ pc[t] = "raised" /\ raised_exc[t] = {"ValueError"}

\* C18: a call whose index construction failed has raised: it returned no
\* chain, produced no analysis result and cached nothing; while the
\* construction cannot succeed the slot stays empty and every call goes
\* through the construction again.
C18_FailedConstructionNotCached ==
    /\ chains = 0 => cached_chain = {}
    /\ \A t \in Threads :
          /\ (pc[t] = "raised" \/ "embed_failed" \in ops[t]) =>
                /\ pc[t] = "raised" /\ raised_exc[t] # {}
                /\ ret[t] = {} /\ ~analysed[t] /\ vstore[t] = {}
          /\ (corpus # "ok" /\ disk # "valid") =>
                /\ cached_chain = {} /\ ret[t] = {} /\ ~analysed[t]
                /\ pc[t] \in {"idle", "check", "exists", "load", "docs", "raised"}

\* The second call of a thread failed like its first one.
C18_Witness ==
    \E t \in Threads :
        /\ calls[t] = 2 /\ pc[t] = "raised" /\ "corpus" \in ops[t]
        /\ cached_chain = {}

-----------------------------------------------------------------------------
(* Properties of build_verbose *)

\* Every turn of the batch loop has been made.
LoopDone == b_pc = "save" \/ (b_pc = "returned" /\ b_error # {"EmbeddingError"})

\* C19: after the batch loop the store holds every document exactly once,
\* like the unbatched build over the same list; so it does for the batch
\* sizes 1, 10 and the number of documents.
C19_BatchedEqualsUnbatched ==
    /\ LoopDone => vectorstore = Unbatched(b_docs)
    /\ saved_index # {} => saved_index = Unbatched(b_docs)
    /\ \A size \in {1, batch_size, Len(b_docs)} \ {0} :
          LET built == BuildBatched(b_docs, 0, size, {})
          IN  /\ built = Unbatched(b_docs)
              /\ \A held \in built :
                    \A d \in 1..Len(b_docs) :
                        Cardinality({k \in 1..Len(held) : held[k] = b_docs[d]}) = 1

\* An index of more than two batches, the last one not full, was saved.
C19_Witness ==
    /\ b_pc = "returned" /\ saved_index = {b_docs}
    /\ Len(b_docs) > 2 * batch_size /\ Len(b_docs) % batch_size # 0

\* C20: when the embedding of a batch fails the build raises to its caller
\* and no index is saved.
C20_BatchFailureRaised ==
    b_error = {"EmbeddingError"} => (b_pc = "raised" /\ saved_index = {})


-----------------------------------------------------------------------------
(* Properties of analyze_grammar_point for every backend text *)

\* C27: whatever text the generation backend returns (no JSON, a JSON value
\* that is no object, an object whose matched_grammar or additional_info is
\* no object), analyze_grammar_point returns a result, the error variant or a
\* defaulted result, and raises nothing.
C27_NoExceptionForAnyResponse ==
    Done => outcome.kind \in {"result", "error"}


-----------------------------------------------------------------------------
(* Properties of build_vector_store: a loaded index, a failed save *)

\* C29: when the persisted index loads, build_vector_store returns the loaded
\* index and touches nothing else: the call neither checks nor reads the
\* corpus, embeds no documents and does not write the persisted index, and
\* the load itself leaves the directory, the corpus and the slot as they are.
C29_LoadedIndexFrame ==
    /\ [](\A t \in Threads :
            vstore[t] = {"loaded"} =>
                /\ ops[t] \subseteq {"load", "llm"}
                /\ pc[t] \in {"llm", "store", "returned"}
                /\ raised_exc[t] = {})
    /\ [][\A t \in Threads :
            (pc[t] = "load" /\ vstore'[t] = {"loaded"}) =>
                UNCHANGED <<disk, corpus, builds, saves, cached_chain>>]_vars

\* A call has returned a chain over the loaded index while the corpus file
\* is missing.
C29_Witness ==
    \E t \in Threads :
        /\ vstore[t] = {"loaded"} /\ pc[t] = "returned" /\ ret[t] # {}
        /\ corpus = "missing" /\ disk = "valid"

-----------------------------------------------------------------------------
(* Properties of the two passes of transcribe_audio *)

\* The list of the first pass holds every input segment, normalized.
PassOneDone ==
    all_segments = [k \in 1..Len(segments) |->
                       [text |-> Normalized(k), start |-> segments[k].start,
                        end |-> segments[k].end]]

\* C23: no backend call is made and no segment-carrying unit is emitted
\* before the first pass has collected and normalized every input segment;
\* the units of the first pass have segment None and an empty transcript, and
\* they all come before every segment-carrying unit.
C23_PassOneBeforeCorrection ==
    /\ (outstanding # {} \/ chat_log # <<>> \/ SegUnits # <<>>
          \/ tr_pc \in {"pass2", "chat", "done"}) => PassOneDone
    /\ tr_pc = "pass1" =>
          \A i \in 1..Len(units) :
              units[i].segment = {} /\ units[i].transcript = <<>>
    /\ \A i \in 1..Len(units) :
          units[i].segment = {} =>
              /\ units[i].transcript = <<>>
              /\ \A j \in 1..(i - 1) : units[j].segment = {}

\* A unit of the first pass is followed by the unit of a segment the backend
\* was called for, and one of the input segments was blank.
C23_Witness ==
    /\ Len(units) >= 2
    /\ units[1].segment = {} /\ units[2].segment # {}
    /\ chat_log[1].prompt # {}
    /\ \E k \in 1..Len(segments) : Strip(segments[k].text) = <<>>

\* C24: the previous and next sentence given to the correction of segment k
\* are the first-pass texts of segments k-1 and k+1, whatever the correction
\* of other segments gave; the first segment has no previous sentence and
\* the last no next one.
C24_ContextFromPassOne ==
    LET n == Len(segments)
        ArgPrev(k) == IF k > 1 THEN Normalized(k - 1) ELSE <<>>
        ArgNext(k) == IF k < n THEN Normalized(k + 1) ELSE <<>>
        Fields(k) ==
            [text |-> Normalized(k),
             prev |-> IF ArgPrev(k) # <<>> THEN ArgPrev(k) ELSE NoPrev,
             next |-> IF ArgNext(k) # <<>> THEN ArgNext(k) ELSE NoNext]
    IN  /\ \A k \in 1..Len(chat_log) :
              /\ chat_log[k].prev = ArgPrev(k)
              /\ chat_log[k].next = ArgNext(k)
              /\ chat_log[k].prompt \subseteq {Fields(k)}
        /\ outstanding # {} => outstanding = {Fields(seg_i + 1)}

\* The backend was called for a segment whose predecessor was emitted with a
\* corrected text, and was given the predecessor's first-pass text.
C24_Witness ==
    \E k \in 2..Len(chat_log) :
        /\ chat_log[k].prompt # {}
        /\ chat_log[k - 1].kind = "content"
        /\ Normalized(k - 1) # <<>>
        /\ SegOf(SegUnits[k - 1]).text # Normalized(k - 1)
        /\ \A q \in chat_log[k].prompt : q.prev = Normalized(k - 1)

\* C25: in every emitted segment ruby_text has one entry per character of
\* the segment's text (the corrected text after the second conversion), in
\* order, with that character as char, and an empty zhuyin for every
\* character outside U+4E00..U+9FFF.
C25_RubyAligned ==
    \A k \in 1..Len(units) :
        \A g \in units[k].segment :
            /\ g.text = convert(g.text)
            /\ Len(g.ruby_text) = Len(g.text)
            /\ \A i \in 1..Len(g.text) :
                  /\ g.ruby_text[i].char = g.text[i]
                  /\ g.text[i] \notin HanLo..HanHi => g.ruby_text[i].zhuyin = <<>>

\* A segment emitted with a corrected text that has a character of the
\* script, tagged, and a Latin letter, untagged.
C25_Witness ==
    \E k \in 1..Len(SegUnits) :
        LET g == SegOf(SegUnits[k])
        IN  /\ g.text # Normalized(k)
            /\ chat_log[k].kind = "content"
            /\ Len(g.ruby_text) = Len(g.text)
            /\ \E i \in 1..Len(g.text) :
                  g.text[i] \in HanLo..HanHi /\ g.ruby_text[i].zhuyin # <<>>
            /\ \E i \in 1..Len(g.text) :
                  g.text[i] < 128 /\ g.ruby_text[i].zhuyin = <<>>

\* C26: the stream is produced on demand.  A backend call is in flight only
\* while the consumer waits for a unit, and only for the segment after the
\* ones whose units were emitted; the generator is suspended at every unit
\* it emits and does nothing until the consumer asks again, so after the
\* consumer stopped no backend call is made and nothing is emitted; emitted
\* units are never changed.
C26_LazyStream ==
    /\ [](/\ Cardinality(outstanding) <= 1
          /\ outstanding # {} =>
                (consumer = "waiting" /\ Len(SegUnits) = seg_i
                 /\ Len(chat_log) = seg_i)
          /\ consumer # "waiting" =>
                (outstanding = {} /\ Len(chat_log) = Len(SegUnits)))
    /\ [][/\ consumer # "waiting" =>
                UNCHANGED <<units, chat_log, outstanding, all_segments,
                            full_text, seg_i, tr_pc>>
          /\ units' # units =>
                /\ consumer = "waiting" /\ consumer' = "holding"
                /\ Len(units') = Len(units) + 1
                /\ SubSeq(units', 1, Len(units)) = units
          /\ consumer = "closed" => consumer' = "closed"]_vars

\* The consumer stopped after the unit of a segment that was not the last,
\* and the backend had been called for that segment and would have been for
\* the next.
C26_Witness ==
    /\ consumer = "closed"
    /\ Len(SegUnits) >= 1 /\ Len(SegUnits) < Len(segments)
    /\ chat_log[Len(chat_log)].prompt # {}
    /\ Called(all_segments[Len(SegUnits) + 1].text)
    /\ Len(chat_log) = Len(SegUnits)

\* C30: with a positive duration the progress of every emitted unit is in
\* 0..100 and no unit has a smaller progress than the unit before it.
C30_ProgressMonotone ==
    duration > 0 =>
        \A i \in 1..Len(units) :
            /\ units[i].progress \in 0..100
            /\ i > 1 => units[i - 1].progress <= units[i].progress


-----------------------------------------------------------------------------
(* Termination of an operation whose backend does not answer *)

\* C21: a call into a backend is bounded by a timeout: a correction that has
\* reached its backend call ends, with the backend's answer or with a
\* recoverable error, also when the backend never answers.
C21_BackendCallBounded ==
    [](ct_pc = "chat" => <>(ct_pc = "returned"))


-----------------------------------------------------------------------------
(* Properties of the chain *)

\* C22: when retrieval returns no document for the requested level the chain
\* goes on: the prompt is assembled with an empty context and the generation
\* backend is called exactly once in that invocation.
C22_EmptyContextStillGenerates ==
    /\ llm_calls <= 1
    /\ (hits = <<>> /\ rpc \in {"prompted", "generated", "parsed"}) =>
          prompt_value = {[context |-> <<>>, level |-> qlevel,
                           input |-> "sentence"]}
    /\ (hits = <<>> /\ rpc \in {"generated", "parsed"}) => llm_calls = 1
    /\ (hits = <<>> /\ rpc = "parsed") => chain_out \subseteq Generations

\* The chain has returned the backend's text for a level of which the index,
\* not empty, holds no document.
C22_Witness ==
    /\ rpc = "parsed" /\ hits = <<>> /\ index # <<>>
    /\ context = <<>> /\ llm_calls = 1 /\ chain_out # {}

=============================================================================
